---- MODULE Spec2Model ----
(***************************************************************************)
(* The "Decision Coach" form clients of this repository.                   *)
(*                                                                         *)
(* Three variants of the same form are modelled, one form instance at a    *)
(* time (the variable `variant` says which page is loaded):                *)
(*   "structured"  src/unnamed/part_000  decision / optionA / optionB      *)
(*   "history"     src/src/main.tsx      prompt, mode, explain, history,   *)
(*                                       share link                        *)
(*   "dual"        src/unnamed/part_002  prompt only (safe vs bold)        *)
(* Every React state cell is a variable; every event handler is an action; *)
(* an async handler is split at its await: the part before the await is    *)
(* the click action, the continuation is the resolve / reject action of    *)
(* the request it left in `inflight`.  The continuation reads the values   *)
(* its closure captured at the click, which the request record carries.    *)
(***************************************************************************)
EXTENDS Integers, Sequences, FiniteSets, TLC

(***************************************************************************)
(* Strings                                                                 *)
(***************************************************************************)
RECURSIVE TrimStart(_)
TrimStart(s) ==
    IF Len(s) > 0 /\ Head(s) = " " THEN TrimStart(Tail(s)) ELSE s

RECURSIVE TrimEnd(_)
TrimEnd(s) ==
    IF Len(s) > 0 /\ SubSeq(s, Len(s), Len(s)) = " "
    THEN TrimEnd(SubSeq(s, 1, Len(s) - 1))
    ELSE s

\* String.prototype.trim
trim(s) == TrimEnd(TrimStart(s))

\* JavaScript truthiness of a string
TruthyStr(s) == s # ""

(***************************************************************************)
(* JSON values that a response body can carry.  A value is a record whose  *)
(* field t is its JavaScript type; a property that is not there has       *)
(* t = "undefined" (for objects), the string Absent or the number         *)
(* AbsentNum.                                                              *)
(***************************************************************************)
Absent == "<absent>"
AbsentNum == 0 - 1

NoScores == [t |-> "undefined", A |-> AbsentNum, B |-> AbsentNum]
SomeScores == [t |-> "object", A |-> 80, B |-> 40]

\* property `output` not there / null / an object with the given properties
MkOut(t, rec, sc, one, simple, conf, ds) ==
    [t |-> t, recommendation |-> rec, scores |-> sc, one_line_summary |-> one,
     simple_summary |-> simple, confidence |-> conf, decision_score |-> ds]

OutUndefined == MkOut("undefined", Absent, NoScores, Absent, Absent, Absent, AbsentNum)
OutNull == MkOut("null", Absent, NoScores, Absent, Absent, Absent, AbsentNum)
OutRecOnly == MkOut("object", "A", NoScores, Absent, Absent, Absent, AbsentNum)
OutScoresOnly == MkOut("object", Absent, SomeScores, Absent, Absent, Absent, AbsentNum)
OutFullA == MkOut("object", "A", SomeScores, "x", "sx", "High", 72)
OutFullB == MkOut("object", "B", SomeScores, "y", "sy", "Low", 35)

\* the well-formed DecisionOutput values of the model
WellFormedOutputs == {OutFullA, OutFullB}
\* every value the property `output` of a body takes in the model
OutputValues ==
    {OutUndefined, OutNull, OutRecOnly, OutScoresOnly, OutFullA, OutFullB}

\* the shape check of spec section 3: recommendation and scores non-null
ShapeOk(o) == o.t = "object" /\ o.recommendation # Absent /\ o.scores.t = "object"

\* JavaScript truthiness of a value read from `output`
Truthy(o) == o.t = "object"

MkBody(t, err, det, out) == [t |-> t, error |-> err, details |-> det, output |-> out]
JsonNull == MkBody("null", Absent, Absent, OutUndefined)

\* the JSON documents of the model: `null`, and objects with some of the
\* properties error, details, output
JsonValues ==
    {JsonNull}
    \cup {MkBody("object", e, d, OutUndefined) : e \in {Absent, "", "boom"}, d \in {Absent, "det"}}
    \cup {MkBody("object", Absent, Absent, o) : o \in OutputValues \ {OutUndefined}}
    \cup {MkBody("object", "boom", Absent, OutFullA)}

(***************************************************************************)
(* JSON text.  Stringify writes a value the way JSON.stringify does (a     *)
(* property that is not there is left out); JsonParse reads a text back    *)
(* and fails on a text that is no document.                                *)
(***************************************************************************)
Quote(s) == "\"" \o s \o "\""

RECURSIVE Join(_)
Join(parts) ==
    IF parts = <<>> THEN ""
    ELSE IF Len(parts) = 1 THEN Head(parts)
    ELSE Head(parts) \o "," \o Join(Tail(parts))

StrProp(name, v) == IF v = Absent THEN <<>> ELSE <<Quote(name) \o ":" \o Quote(v)>>
NumProp(name, n) == IF n = AbsentNum THEN <<>> ELSE <<Quote(name) \o ":" \o ToString(n)>>

StringifyScores(sc) ==
    "{" \o Quote("A") \o ":" \o ToString(sc.A) \o "," \o Quote("B") \o ":" \o ToString(sc.B) \o "}"

StringifyOutput(o) ==
    IF o.t = "null" THEN "null"
    ELSE "{" \o Join(StrProp("recommendation", o.recommendation)
                     \o (IF o.scores.t = "object"
                         THEN <<Quote("scores") \o ":" \o StringifyScores(o.scores)>>
                         ELSE <<>>)
                     \o StrProp("one_line_summary", o.one_line_summary)
                     \o StrProp("simple_summary", o.simple_summary)
                     \o StrProp("confidence", o.confidence)
                     \o NumProp("decision_score", o.decision_score)) \o "}"

Stringify(v) ==
    IF v.t = "null" THEN "null"
    ELSE "{" \o Join(StrProp("error", v.error)
                     \o StrProp("details", v.details)
                     \o (IF v.output.t = "undefined"
                         THEN <<>>
                         ELSE <<Quote("output") \o ":" \o StringifyOutput(v.output)>>)) \o "}"

\* the texts that are JSON documents, each with the value it denotes
JsonTexts == {Stringify(v) : v \in JsonValues}
JsonTable == [text \in JsonTexts |-> CHOOSE v \in JsonValues : Stringify(v) = text]

IsJson(text) == text \in JsonTexts

\* JSON.parse: the document the text denotes (defined when IsJson(text))
JsonParse(text) == JsonTable[text]

\* bodies that are no JSON document
NonJsonTexts == {"not json", ""}

\* every body text a response carries in the model
BodyTexts == JsonTexts \cup NonJsonTexts

\* message of the SyntaxError JSON.parse / Response.json throw (V8 wording)
SyntaxErrorMessage(text) ==
    IF text = "" THEN "Unexpected end of JSON input"
    ELSE "Unexpected token '" \o SubSeq(text, 1, 1) \o "', " \o Quote(text)
         \o " is not valid JSON"

\* message of the TypeError a property read of null / undefined throws
TypeErrorMessage(of, prop) ==
    "Cannot read properties of " \o of \o " (reading '" \o prop \o "')"

\* Response.ok
IsOk(status) == status >= 200 /\ status <= 299

(***************************************************************************)
(* Inputs of the model                                                     *)
(***************************************************************************)
\* what the user types into a required field: nothing, blanks, a text with
\* blanks around it
FieldValues == {"", " ", " d "}
\* what the user types into the prompt (the field starts empty)
PromptValues == {"  ", " p "}

\* status codes of a response
Statuses == {200, 201, 500}

\* messages of the error a rejected fetch carries (Chrome, Firefox, none)
RejectMessages == {"Failed to fetch", "NetworkError when attempting to fetch resource.", ""}

Variants == {"structured", "history", "dual"}

\* bounds of Spec: identifiers drawn from crypto.randomUUID, share links being
\* copied or shown
MaxItems == 1
MaxShares == 1

\* readings of Date.now(): Spec handles its responses at one reading (none of
\* its claims compares timestamps), SpecCap at an earlier or a later one
OneTime == {1}
Times == {1, 2}

(***************************************************************************)
(* State                                                                   *)
(***************************************************************************)
VARIABLES
    variant,        \* which page is loaded
    decision, optionA, optionB,         \* part_000: the required fields
    criteriaText,   \* part_000: the optional criteria, one per line
    prompt,         \* main.tsx, part_002
    mode, explain,  \* main.tsx
    loading, error,
    rawResponse, result,                \* part_000
    output,         \* main.tsx, part_002
    showReasoning,  \* main.tsx
    history,        \* main.tsx: the history state cell
    storage,        \* main.tsx: localStorage[LS_KEY]
    inflight,       \* the requests awaiting their response, in order of issue
    timers,         \* main.tsx: pending setTimeout callbacks of copyShareLink
    clipboardPending, \* main.tsx: copyShareLink calls awaiting the clipboard
    search,         \* main.tsx: the parameter s of window.location ("" if none)
    hasUUID,        \* main.tsx: crypto.randomUUID is there (a secure context)
    nextId,         \* main.tsx: the next identifier crypto.randomUUID returns
    escaped,        \* an exception left a handler uncaught
    last            \* the handler step that last wrote a cell other than a form
                    \* field, and its input

vars == <<variant, decision, optionA, optionB, criteriaText, prompt, mode, explain, loading, error,
          rawResponse, result, output, showReasoning, history, storage, inflight,
          timers, clipboardPending, search, hasUUID, nextId, escaped, last>>

formVars == <<decision, optionA, optionB, criteriaText, prompt, mode, explain>>
historyVars == <<history, storage, hasUUID, nextId>>
shareVars == <<timers, clipboardPending, search>>

Event(op, status, text, message) ==
    [op |-> op, status |-> status, text |-> text, message |-> message, missing |-> FALSE]
Did(op) == Event(op, 0, "", "")
\* a click on the submit button; missing: a required field was blank
Submitted(missing) ==
    [op |-> "submit", status |-> 0, text |-> "", message |-> "", missing |-> missing]

\* the field holds nothing but blanks
Blank(s) == trim(s) = ""

\* a handler that starts without clearing the result of the last submission
Cleared_Kept == IF variant = "structured" THEN result ELSE output

\* setResult(null) / setOutput(null) at the start of the submit handler
Cleared == OutNull

\* a finally block that leaves the cell as it is
FinallyLoading_Skipped == TRUE

\* finally { setLoading(false) }: the value loading takes when the
\* continuation of a submission ends, however it ends
FinallyLoading == FALSE

\* a request left pending by a click: what its continuation's closure holds
Request(payload, hist) == [payload |-> payload, history |-> hist]

\* a continuation that issues its request again when it ends
RemoveAt_Retry(seq, i) == Append(SubSeq(seq, 1, i - 1) \o SubSeq(seq, i + 1, Len(seq)), seq[i])

\* the pending requests once the continuation of the i-th has run
RemoveAt(seq, i) == SubSeq(seq, 1, i - 1) \o SubSeq(seq, i + 1, Len(seq))

(***************************************************************************)
(* part_000: the structured form                                           *)
(***************************************************************************)
ValidationError0 == "Please fill Decision, Option A, and Option B."
MissingOutput0 == "API returned success, but missing 'output'. Check Lambda response shape."

\* a check that forgets option B
Valid0_ForgetsB(d, a, b) == TruthyStr(d) /\ TruthyStr(a)

\* !d || !a || !b is false
Valid0(d, a, b) == TruthyStr(d) /\ TruthyStr(a) /\ TruthyStr(b)

SetDecision(v) ==
    /\ variant = "structured"
    /\ decision' = v
    /\ UNCHANGED <<variant, criteriaText, optionA, optionB, prompt, mode, explain, loading, error,
                   rawResponse, result, output, showReasoning, inflight, escaped, last>>
    /\ UNCHANGED <<historyVars, shareVars>>

SetOptionA(v) ==
    /\ variant = "structured"
    /\ optionA' = v
    /\ UNCHANGED <<variant, criteriaText, decision, optionB, prompt, mode, explain, loading, error,
                   rawResponse, result, output, showReasoning, inflight, escaped, last>>
    /\ UNCHANGED <<historyVars, shareVars>>

SetOptionB(v) ==
    /\ variant = "structured"
    /\ optionB' = v
    /\ UNCHANGED <<variant, criteriaText, decision, optionA, prompt, mode, explain, loading, error,
                   rawResponse, result, output, showReasoning, inflight, escaped, last>>
    /\ UNCHANGED <<historyVars, shareVars>>

\* a button without the disabled attribute
AlwaysEnabled == TRUE

\* a button disabled by the wrong cell
DisabledOnError == error = ""

\* the submit button is rendered with disabled={loading}
SubmitEnabled == ~loading

\* the value of parsedCriteria: undefined, or an array of criteria; a
\* criterion without weight has weight AbsentNum
NoCriteria == [t |-> "undefined", items |-> <<>>]
Criteria(items) == [t |-> "array", items |-> items]

\* criteriaText.split("\n"); line is the line being read
RECURSIVE split(_, _)
split(text, line) ==
    IF text = "" THEN <<line>>
    ELSE IF Head(text) = "\n" THEN <<line>> \o split(Tail(text), "")
    ELSE split(Tail(text), line \o Head(text))

\* .map((l) => l.trim()).filter(Boolean)
RECURSIVE TrimmedLines(_)
TrimmedLines(lines) ==
    IF lines = <<>> THEN <<>>
    ELSE (IF TruthyStr(trim(Head(lines))) THEN <<trim(Head(lines))>> ELSE <<>>)
         \o TrimmedLines(Tail(lines))

Digits == "0123456789"
IsDigits(s) ==
    \A k \in 1..Len(s) : \E d \in 1..Len(Digits) : SubSeq(Digits, d, d) = SubSeq(s, k, k)

\* Number(m[2]) for a text of digits
RECURSIVE Number(_)
Number(s) ==
    IF s = "" THEN 0
    ELSE Number(SubSeq(s, 1, Len(s) - 1)) * 10
         + (CHOOSE d \in 1..Len(Digits) : SubSeq(Digits, d, d) = SubSeq(s, Len(s), Len(s))) - 1

\* a pattern that takes any number of digits for the weight
MatchAt_AnyDigits(line, k) ==
    LET rest == TrimStart(SubSeq(line, k + 1, Len(line)))
    IN /\ rest # "" /\ Head(rest) \in {":", "-"}
       /\ LET weight == TrimEnd(TrimStart(Tail(rest)))
          IN Len(weight) >= 1 /\ IsDigits(weight)

\* line.match(/^(.+?)\s*[:\-]\s*(\d{1,3})\s*$/): with the label ending at k,
\* the rest is blanks, ':' or '-', blanks, one to three digits, blanks
MatchAt(line, k) ==
    LET rest == TrimStart(SubSeq(line, k + 1, Len(line)))
    IN /\ rest # "" /\ Head(rest) \in {":", "-"}
       /\ LET weight == TrimEnd(TrimStart(Tail(rest)))
          IN Len(weight) \in 1..3 /\ IsDigits(weight)

\* the criterion pushed for a line (lines 56-61); the lazy (.+?) ends at the
\* first of the ends that let the rest of the pattern match
CriterionOf(line) ==
    LET ends == {k \in 1..Len(line) : MatchAt(line, k)}
    IN IF ends = {} THEN [criterion |-> line, weight |-> AbsentNum]
       ELSE LET k == CHOOSE e \in ends : \A j \in ends : e <= j
                rest == TrimStart(SubSeq(line, k + 1, Len(line)))
            IN [criterion |-> trim(SubSeq(line, 1, k)), weight |-> Number(trim(Tail(rest)))]

parsedCriteria(text) ==
    LET lines == TrimmedLines(split(text, ""))
    IN IF Len(lines) = 0 THEN NoCriteria
       ELSE Criteria([k \in 1..Len(lines) |-> CriterionOf(lines[k])])

SetCriteriaText(v) ==
    /\ variant = "structured"
    /\ criteriaText' = v
    /\ UNCHANGED <<variant, decision, optionA, optionB, prompt, mode, explain, loading, error,
                   rawResponse, result, output, showReasoning, inflight, escaped, last>>
    /\ UNCHANGED <<historyVars, shareVars>>

\* the payload of lines 82-88 (criteria with t = "undefined" is left out of
\* the JSON text)
Payload0(d, a, b, criteria) ==
    [decision |-> d, optionA |-> a, optionB |-> b, criteria |-> criteria]

\* submit() up to its await
Submit0 ==
    /\ variant = "structured"
    /\ SubmitEnabled
    /\ rawResponse' = ""
    /\ result' = Cleared
    /\ LET d == trim(decision)
           a == trim(optionA)
           b == trim(optionB)
       IN IF ~Valid0(d, a, b)
          THEN /\ error' = ValidationError0
               /\ UNCHANGED <<loading, inflight>>
          ELSE /\ error' = ""
               /\ loading' = TRUE
               /\ inflight' = Append(inflight,
                                    Request(Payload0(d, a, b, parsedCriteria(criteriaText)), <<>>))
    /\ last' = Submitted(Blank(decision) \/ Blank(optionA) \/ Blank(optionB))
    /\ UNCHANGED <<variant, formVars, output, showReasoning, escaped>>
    /\ UNCHANGED <<historyVars, shareVars>>

\* what the inner try block (lines 101-103) throws: the SyntaxError of
\* JSON.parse, the TypeError of reading null.error, or Error(j.error || HTTP n)
InnerThrown0(status, text) ==
    IF ~IsJson(text) THEN SyntaxErrorMessage(text)
    ELSE LET j == JsonParse(text)
         IN IF j.t = "null" THEN TypeErrorMessage("null", "error")
            ELSE IF j.error # Absent /\ TruthyStr(j.error) THEN j.error
            ELSE "HTTP " \o ToString(status)

\* the message thrown for a response that is not ok: the inner try always
\* throws and its own catch (lines 104-106) replaces whatever it threw
NotOkMessage0(status, text) ==
    LET inner == InnerThrown0(status, text)
    IN "HTTP " \o ToString(status) \o ": " \o text

\* setError(e?.message), without the fallback text
CaughtMessage0_Bare(message) == message

\* setError(e?.message || "Unknown error")
CaughtMessage0(message) == IF TruthyStr(message) THEN message ELSE "Unknown error"

\* the catch block (lines 117-118), entered with an error of that message
Threw0(message) ==
    [setsError |-> TRUE, error |-> CaughtMessage0(message),
     setsResult |-> FALSE, result |-> OutNull]

\* json?.output
OutputOf0(json) == IF json.t = "null" THEN OutUndefined ELSE json.output

\* the continuation of submit() after the response text is read: what it
\* sets.  setsError / setsResult say whether the setter is called.
Outcome0(status, text) ==
    IF ~IsOk(status)
    THEN Threw0(NotOkMessage0(status, text))
    ELSE IF ~IsJson(text)
    THEN Threw0(SyntaxErrorMessage(text))
    ELSE LET out == OutputOf0(JsonParse(text))
         IN IF ~Truthy(out)
            THEN [setsError |-> TRUE, error |-> MissingOutput0,
                  setsResult |-> FALSE, result |-> OutNull]
            ELSE [setsError |-> FALSE, error |-> "",
                  setsResult |-> TRUE, result |-> out]

\* a continuation that keeps the text only of a response that is ok
Resolve0_RawWhenOk(i, status, text) ==
    /\ variant = "structured"
    /\ i \in 1..Len(inflight)
    /\ inflight' = RemoveAt(inflight, i)
    /\ rawResponse' = IF IsOk(status) THEN text ELSE rawResponse
    /\ LET o == Outcome0(status, text)
       IN /\ error' = IF o.setsError THEN o.error ELSE error
          /\ result' = IF o.setsResult THEN o.result ELSE result
    /\ loading' = FinallyLoading
    /\ last' = Event("response", status, text, "")
    /\ UNCHANGED <<variant, formVars, output, showReasoning, escaped>>
    /\ UNCHANGED <<historyVars, shareVars>>

\* the response of request i arrives: submit() from `await resp.text()` on
Resolve0(i, status, text) ==
    /\ variant = "structured"
    /\ i \in 1..Len(inflight)
    /\ inflight' = RemoveAt(inflight, i)
    /\ rawResponse' = text
    /\ LET o == Outcome0(status, text)
       IN /\ error' = IF o.setsError THEN o.error ELSE error
          /\ result' = IF o.setsResult THEN o.result ELSE result
    /\ loading' = FinallyLoading
    /\ last' = Event("response", status, text, "")
    /\ UNCHANGED <<variant, formVars, output, showReasoning, escaped>>
    /\ UNCHANGED <<historyVars, shareVars>>

\* the fetch of request i rejects
Reject0(i, message) ==
    /\ variant = "structured"
    /\ i \in 1..Len(inflight)
    /\ inflight' = RemoveAt(inflight, i)
    /\ error' = Threw0(message).error
    /\ loading' = FinallyLoading
    /\ last' = Event("rejected", 0, "", message)
    /\ UNCHANGED <<variant, formVars, rawResponse, result, output, showReasoning, escaped>>
    /\ UNCHANGED <<historyVars, shareVars>>

(***************************************************************************)
(* part_002: the prompt-only form (safe vs bold)                           *)
(***************************************************************************)
ValidationError2 == "Please describe your dilemma."

SetPrompt2(v) ==
    /\ variant = "dual"
    /\ prompt' = v
    /\ UNCHANGED <<variant, criteriaText, decision, optionA, optionB, mode, explain, loading, error,
                   rawResponse, result, output, showReasoning, inflight, escaped, last>>
    /\ UNCHANGED <<historyVars, shareVars>>

\* the body is JSON.stringify({ prompt }): the prompt as typed
Payload2(p) == [prompt |-> p]

\* submit() up to its await
Submit2 ==
    /\ variant = "dual"
    /\ SubmitEnabled
    /\ output' = Cleared
    /\ IF ~TruthyStr(trim(prompt))
       THEN /\ error' = ValidationError2
            /\ UNCHANGED <<loading, inflight>>
       ELSE /\ error' = ""
            /\ loading' = TRUE
            /\ inflight' = Append(inflight, Request(Payload2(prompt), <<>>))
    /\ last' = Submitted(Blank(prompt))
    /\ UNCHANGED <<variant, formVars, rawResponse, result, showReasoning, escaped>>
    /\ UNCHANGED <<historyVars, shareVars>>

\* data?.error, as a string or Absent
ErrorOf(data) == IF data.t = "null" THEN Absent ELSE data.error

\* x || fallback for a string property that may not be there
OrElse(x, fallback) == IF x # Absent /\ TruthyStr(x) THEN x ELSE fallback

\* setError(e.message || "Something went wrong")
CaughtMessage2(message) == OrElse(message, "Something went wrong")

\* a catch block that swallows the error
Threw2_Swallowed(message) ==
    [setsError |-> FALSE, error |-> "", setsOutput |-> FALSE, output |-> OutNull]

\* the catch block (lines 191-192), entered with an error of that message
Threw2(message) ==
    [setsError |-> TRUE, error |-> CaughtMessage2(message),
     setsOutput |-> FALSE, output |-> OutNull]

\* the continuation of submit() after `await res.json()`
Outcome2(status, text) ==
    IF ~IsJson(text)
    THEN Threw2(SyntaxErrorMessage(text))
    ELSE LET data == JsonParse(text)
         IN IF ~IsOk(status)
            THEN Threw2(OrElse(ErrorOf(data), "Request failed"))
            ELSE IF data.t = "null"
            THEN Threw2(TypeErrorMessage("null", "output"))
            ELSE [setsError |-> FALSE, error |-> "",
                  setsOutput |-> TRUE, output |-> data.output]

Resolve2(i, status, text) ==
    /\ variant = "dual"
    /\ i \in 1..Len(inflight)
    /\ inflight' = RemoveAt(inflight, i)
    /\ LET o == Outcome2(status, text)
       IN /\ error' = IF o.setsError THEN o.error ELSE error
          /\ output' = IF o.setsOutput THEN o.output ELSE output
    /\ loading' = FinallyLoading
    /\ last' = Event("response", status, text, "")
    /\ UNCHANGED <<variant, formVars, rawResponse, result, showReasoning, escaped>>
    /\ UNCHANGED <<historyVars, shareVars>>

Reject2(i, message) ==
    /\ variant = "dual"
    /\ i \in 1..Len(inflight)
    /\ inflight' = RemoveAt(inflight, i)
    /\ error' = Threw2(message).error
    /\ loading' = FinallyLoading
    /\ last' = Event("rejected", 0, "", message)
    /\ UNCHANGED <<variant, formVars, rawResponse, result, output, showReasoning, escaped>>
    /\ UNCHANGED <<historyVars, shareVars>>

(***************************************************************************)
(* main.tsx: the prompt form with history and share link                   *)
(***************************************************************************)
ValidationError1 == "Type your dilemma first."
\* the notice of copyShareLink (the source puts a check mark before it)
LinkCopied == "Link copied!"

Modes == {"career", "money"}
Explains == {"simple", "normal"}

\* persistHistory keeps next.slice(0, 25); the load effect shows items.slice(0, 10)
HistoryCap == 25
LoadLimit == 10

Take(seq, n) == SubSeq(seq, 1, IF Len(seq) < n THEN Len(seq) ELSE n)

Front(seq) == SubSeq(seq, 1, Len(seq) - 1)

\* x goes behind every element that the comparator b.ts - a.ts does not put
\* behind it (Array.prototype.sort is stable)
RECURSIVE InsertDesc(_, _)
InsertDesc(sorted, x) ==
    IF sorted = <<>> THEN <<x>>
    ELSE IF Head(sorted).ts >= x.ts THEN <<Head(sorted)>> \o InsertDesc(Tail(sorted), x)
    ELSE <<x>> \o sorted

\* items.sort((a, b) => b.ts - a.ts)
RECURSIVE SortDesc(_)
SortDesc(items) ==
    IF items = <<>> THEN <<>>
    ELSE InsertDesc(SortDesc(Front(items)), items[Len(items)])

\* localStorage[LS_KEY]: not there, or the JSON text of a list of items
NoStorage == [kind |-> "absent", items |-> <<>>]
StoredList(items) == [kind |-> "list", items |-> items]

\* the kinds of a stored text that is JSON but not an array, as another
\* script or an older version of the page may leave it: {}, null, 5
NotAList == {"object", "null", "number"}

\* safeParse(localStorage.getItem(LS_KEY), []): the fallback for no text, the
\* empty text and a text that is not JSON, and else whatever JSON.parse
\* returns (a value that is not a list stands as its kind)
safeParse(stored) ==
    IF stored.kind = "list" THEN stored.items
    ELSE IF stored.kind \in NotAList THEN stored.kind
    ELSE <<>>

\* items.sort(...) (line 159) throws a TypeError: an object or a number has
\* no sort method, and null has no properties
LoadThrows(stored) == stored.kind \in NotAList

\* the history cell after the load effect (lines 158-160); when line 159
\* throws, setHistory is not reached and the cell keeps useState's []
LoadedHistory(stored) ==
    IF LoadThrows(stored) THEN <<>>
    ELSE Take(SortDesc(safeParse(stored)), LoadLimit)

\* explain === "simple" ? out.simple_summary : out.one_line_summary
SummaryProp(ex) == IF ex = "simple" THEN "simple_summary" ELSE "one_line_summary"
SummaryOf(ex, out) == IF ex = "simple" THEN out.simple_summary ELSE out.one_line_summary

\* the HistoryItem of lines 223-234
HistoryItem(id, ts, payload, out) ==
    [id |-> id, ts |-> ts, mode |-> payload.mode, explain |-> payload.explain,
     prompt |-> payload.prompt, summary |-> SummaryOf(payload.explain, out),
     recommendation |-> out.recommendation, confidence |-> out.confidence,
     score |-> out.decision_score, output |-> out]

\* a list persisted without the slice
Untrimmed(next) == next

\* next.slice(0, 25)
Trimmed(next) == Take(next, HistoryCap)

\* [item, ...history].sort((a, b) => b.ts - a.ts)
NextHistory(item, hist) == SortDesc(<<item>> \o hist)

Payload1(p, m, ex) == [prompt |-> p, mode |-> m, explain |-> ex]

SetMode(m) ==
    /\ variant = "history"
    /\ mode' = m
    /\ UNCHANGED <<variant, criteriaText, decision, optionA, optionB, prompt, explain, loading, error,
                   rawResponse, result, output, showReasoning, inflight, escaped, last>>
    /\ UNCHANGED <<historyVars, shareVars>>

SetExplain(ex) ==
    /\ variant = "history"
    /\ explain' = ex
    /\ UNCHANGED <<variant, criteriaText, decision, optionA, optionB, prompt, mode, loading, error,
                   rawResponse, result, output, showReasoning, inflight, escaped, last>>
    /\ UNCHANGED <<historyVars, shareVars>>

\* typing into the textarea, or choosing a preset
SetPrompt1(v) ==
    /\ variant = "history"
    /\ prompt' = v
    /\ UNCHANGED <<variant, criteriaText, decision, optionA, optionB, mode, explain, loading, error,
                   rawResponse, result, output, showReasoning, inflight, escaped, last>>
    /\ UNCHANGED <<historyVars, shareVars>>

\* the "Show reasoning" button, rendered while output is truthy
ToggleReasoning ==
    /\ variant = "history"
    /\ Truthy(output)
    /\ showReasoning' = ~showReasoning
    /\ UNCHANGED <<variant, formVars, loading, error, rawResponse, result, output,
                   inflight, escaped, last>>
    /\ UNCHANGED <<historyVars, shareVars>>

\* analyze() up to its await
Analyze ==
    /\ variant = "history"
    /\ SubmitEnabled
    /\ output' = Cleared
    /\ showReasoning' = FALSE
    /\ LET p == trim(prompt)
       IN IF ~TruthyStr(p)
          THEN /\ error' = ValidationError1
               /\ UNCHANGED <<loading, inflight>>
          ELSE /\ nextId <= MaxItems
               /\ error' = ""
               /\ loading' = TRUE
               /\ inflight' = Append(inflight, Request(Payload1(p, mode, explain), history))
    /\ last' = Submitted(Blank(prompt))
    /\ UNCHANGED <<variant, formVars, rawResponse, result, escaped>>
    /\ UNCHANGED <<historyVars, shareVars>>

\* crypto?.randomUUID?.() || String(Date.now())
ItemId(uuid, n, ts) == IF uuid THEN "uuid-" \o ToString(n) ELSE ToString(ts)

\* setError(e?.message || "Unknown error")
CaughtMessage1(message) == OrElse(message, "Unknown error")

\* the catch block (lines 236-237), entered with an error of that message
\* after setOutput(out) was called (setsOutput) or before it
Threw1(message, setsOutput, out) ==
    [setsError |-> TRUE, error |-> CaughtMessage1(message),
     setsOutput |-> setsOutput, output |-> out, persists |-> FALSE, next |-> <<>>]

\* the continuation of analyze() after `await resp.json()`, for the request
\* req, with Date.now() = ts and a fresh id
Outcome1(status, text, req, id, ts) ==
    IF ~IsJson(text)
    THEN Threw1(SyntaxErrorMessage(text), FALSE, OutNull)
    ELSE LET data == JsonParse(text)
         IN IF ~IsOk(status)
            THEN Threw1(OrElse(ErrorOf(data), "HTTP " \o ToString(status)), FALSE, OutNull)
            ELSE IF data.t = "null"
            THEN Threw1(TypeErrorMessage("null", "output"), FALSE, OutNull)
            ELSE LET out == data.output
                 IN IF out.t # "object"
                    THEN Threw1(TypeErrorMessage(out.t, SummaryProp(req.payload.explain)),
                                TRUE, out)
                    ELSE [setsError |-> FALSE, error |-> "",
                          setsOutput |-> TRUE, output |-> out,
                          persists |-> TRUE,
                          next |-> NextHistory(HistoryItem(id, ts, req.payload, out),
                                               req.history)]

Resolve1(i, status, text, ts) ==
    /\ variant = "history"
    /\ i \in 1..Len(inflight)
    /\ inflight' = RemoveAt(inflight, i)
    /\ LET o == Outcome1(status, text, inflight[i], ItemId(hasUUID, nextId, ts), ts)
       IN /\ error' = IF o.setsError THEN o.error ELSE error
          /\ output' = IF o.setsOutput THEN o.output ELSE output
          /\ IF o.persists
             THEN /\ history' = Trimmed(o.next)
                  /\ storage' = StoredList(Trimmed(o.next))
                  /\ nextId' = IF hasUUID THEN nextId + 1 ELSE nextId
             ELSE UNCHANGED <<history, storage, nextId>>
    /\ UNCHANGED hasUUID
    /\ loading' = FinallyLoading
    /\ last' = Event("response", status, text, "")
    /\ UNCHANGED <<variant, formVars, rawResponse, result, showReasoning, escaped>>
    /\ UNCHANGED shareVars

Reject1(i, message) ==
    /\ variant = "history"
    /\ i \in 1..Len(inflight)
    /\ inflight' = RemoveAt(inflight, i)
    /\ error' = Threw1(message, FALSE, OutNull).error
    /\ loading' = FinallyLoading
    /\ last' = Event("rejected", 0, "", message)
    /\ UNCHANGED <<variant, formVars, rawResponse, result, output, showReasoning, escaped>>
    /\ UNCHANGED <<historyVars, shareVars>>

\* h.output || null
OutputOrNull(out) == IF Truthy(out) THEN out ELSE OutNull

\* a loadHistoryItem that leaves the error message where it is
LoadHistoryItem_KeepsError(k) ==
    /\ variant = "history"
    /\ k \in 1..Len(history)
    /\ mode' = history[k].mode
    /\ explain' = history[k].explain
    /\ prompt' = history[k].prompt
    /\ output' = OutputOrNull(history[k].output)
    /\ showReasoning' = FALSE
    /\ last' = Did("loadHistoryItem")
    /\ UNCHANGED <<variant, criteriaText, decision, optionA, optionB, loading, rawResponse, result,
                   inflight, escaped, error>>
    /\ UNCHANGED <<historyVars, shareVars>>

\* a click on the k-th entry of the history list
LoadHistoryItem(k) ==
    /\ variant = "history"
    /\ k \in 1..Len(history)
    /\ mode' = history[k].mode
    /\ explain' = history[k].explain
    /\ prompt' = history[k].prompt
    /\ output' = OutputOrNull(history[k].output)
    /\ error' = ""
    /\ showReasoning' = FALSE
    /\ last' = Did("loadHistoryItem")
    /\ UNCHANGED <<variant, criteriaText, decision, optionA, optionB, loading, rawResponse, result,
                   inflight, escaped>>
    /\ UNCHANGED <<historyVars, shareVars>>

\* the Clear button is rendered with disabled={history.length === 0}
ClearHistory ==
    /\ variant = "history"
    /\ Len(history) # 0
    /\ storage' = NoStorage
    /\ history' = <<>>
    /\ last' = Did("clearHistory")
    /\ UNCHANGED <<variant, formVars, loading, error, rawResponse, result, output,
                   showReasoning, inflight, hasUUID, nextId, escaped>>
    /\ UNCHANGED shareVars

\* copyShareLink() up to `await navigator.clipboard.writeText(link)`
CopyShareLink ==
    /\ variant = "history"
    /\ clipboardPending + timers < MaxShares
    /\ clipboardPending' = clipboardPending + 1
    /\ UNCHANGED <<variant, formVars, loading, error, rawResponse, result, output,
                   showReasoning, inflight, timers, escaped, last>>
    /\ UNCHANGED <<historyVars, search>>

\* the clipboard write resolves: the notice is shown in the error cell and its
\* reset is scheduled
ClipboardResolve ==
    /\ variant = "history"
    /\ clipboardPending > 0
    /\ clipboardPending' = clipboardPending - 1
    /\ error' = LinkCopied
    /\ timers' = timers + 1
    /\ last' = Did("linkCopied")
    /\ UNCHANGED <<variant, formVars, loading, rawResponse, result, output,
                   showReasoning, inflight, escaped>>
    /\ UNCHANGED <<historyVars, search>>

\* the clipboard write rejects: window.prompt shows the link, no cell is set
ClipboardReject ==
    /\ variant = "history"
    /\ clipboardPending > 0
    /\ clipboardPending' = clipboardPending - 1
    /\ UNCHANGED <<variant, formVars, loading, error, rawResponse, result, output,
                   showReasoning, inflight, timers, escaped, last>>
    /\ UNCHANGED <<historyVars, search>>

\* setTimeout(() => setError(""), 1500) fires
TimerFire ==
    /\ variant = "history"
    /\ timers > 0
    /\ timers' = timers - 1
    /\ error' = ""
    /\ last' = Did("timer")
    /\ UNCHANGED <<variant, formVars, loading, rawResponse, result, output,
                   showReasoning, inflight, clipboardPending, escaped>>
    /\ UNCHANGED <<historyVars, search>>

(***************************************************************************)
(* main.tsx: the share link.  A string is encoded character by character:  *)
(* the model's texts are printable ASCII, for which                        *)
(* unescape(encodeURIComponent(s)) is one byte per character, its code.    *)
(***************************************************************************)
\* the printable ASCII characters of code 32 to 95 and of code 97 to 126
\* (a string of the model cannot hold the grave accent, code 96)
AsciiLow == " !\"#$%&'()*+,-./0123456789:;<=>?@ABCDEFGHIJKLMNOPQRSTUVWXYZ[\\]^_"
AsciiHigh == "abcdefghijklmnopqrstuvwxyz{|}~"

CharCode(c) ==
    IF \E i \in 1..Len(AsciiLow) : SubSeq(AsciiLow, i, i) = c
    THEN 31 + (CHOOSE i \in 1..Len(AsciiLow) : SubSeq(AsciiLow, i, i) = c)
    ELSE 96 + (CHOOSE i \in 1..Len(AsciiHigh) : SubSeq(AsciiHigh, i, i) = c)
CharOf(n) ==
    IF n < 96 THEN SubSeq(AsciiLow, n - 31, n - 31) ELSE SubSeq(AsciiHigh, n - 96, n - 96)

\* the base64 alphabet of btoa / atob
B64 == "ABCDEFGHIJKLMNOPQRSTUVWXYZabcdefghijklmnopqrstuvwxyz0123456789+/"
B64Char(n) == SubSeq(B64, n + 1, n + 1)
IsB64Char(c) == \E i \in 1..Len(B64) : SubSeq(B64, i, i) = c
B64Index(c) == (CHOOSE i \in 1..Len(B64) : SubSeq(B64, i, i) = c) - 1

\* unescape(encodeURIComponent(s)): the UTF-8 bytes of s
RECURSIVE Utf8Bytes(_)
Utf8Bytes(s) == IF s = "" THEN <<>> ELSE <<CharCode(Head(s))>> \o Utf8Bytes(Tail(s))

\* decodeURIComponent(escape(bytes)) yields a text of the model: printable
\* ASCII (other bytes, which no text of the model encodes to, count as
\* malformed)
IsText(bytes) == \A k \in 1..Len(bytes) : bytes[k] >= 32 /\ bytes[k] <= 126 /\ bytes[k] # 96

\* decodeURIComponent(escape(bytes)), when it succeeds
RECURSIVE FromUtf8(_)
FromUtf8(bytes) ==
    IF bytes = <<>> THEN "" ELSE CharOf(Head(bytes)) \o FromUtf8(Tail(bytes))

\* btoa: three bytes make four characters, the rest is padded with "="
RECURSIVE btoa(_)
btoa(bytes) ==
    IF bytes = <<>> THEN ""
    ELSE IF Len(bytes) = 1
    THEN LET n == bytes[1] * 16
         IN B64Char(n \div 64) \o B64Char(n % 64) \o "=="
    ELSE IF Len(bytes) = 2
    THEN LET n == (bytes[1] * 256 + bytes[2]) * 4
         IN B64Char(n \div 4096) \o B64Char((n \div 64) % 64) \o B64Char(n % 64) \o "="
    ELSE LET n == (bytes[1] * 256 + bytes[2]) * 256 + bytes[3]
         IN B64Char(n \div 262144) \o B64Char((n \div 4096) % 64)
            \o B64Char((n \div 64) % 64) \o B64Char(n % 64)
            \o btoa(SubSeq(bytes, 4, Len(bytes)))

\* atob's input with the padding it allows taken off: one or two "=" at the
\* end of a text whose length is a multiple of four
Unpadded(b64) ==
    IF Len(b64) % 4 # 0 \/ Len(b64) = 0 THEN b64
    ELSE IF SubSeq(b64, Len(b64) - 1, Len(b64)) = "==" THEN SubSeq(b64, 1, Len(b64) - 2)
    ELSE IF SubSeq(b64, Len(b64), Len(b64)) = "=" THEN SubSeq(b64, 1, Len(b64) - 1)
    ELSE b64

\* atob does not throw InvalidCharacterError
AtobOk(b64) ==
    LET data == Unpadded(b64)
    IN /\ Len(data) % 4 # 1
       /\ \A k \in 1..Len(data) : IsB64Char(SubSeq(data, k, k))

\* the bytes of unpadded base64 text
RECURSIVE AtobBytes(_)
AtobBytes(data) ==
    IF Len(data) < 2 THEN <<>>
    ELSE IF Len(data) = 2
    THEN LET n == B64Index(SubSeq(data, 1, 1)) * 64 + B64Index(SubSeq(data, 2, 2))
         IN <<n \div 16>>
    ELSE IF Len(data) = 3
    THEN LET n == (B64Index(SubSeq(data, 1, 1)) * 64 + B64Index(SubSeq(data, 2, 2))) * 64
                  + B64Index(SubSeq(data, 3, 3))
         IN <<n \div 1024, (n \div 4) % 256>>
    ELSE LET n == ((B64Index(SubSeq(data, 1, 1)) * 64 + B64Index(SubSeq(data, 2, 2))) * 64
                   + B64Index(SubSeq(data, 3, 3))) * 64 + B64Index(SubSeq(data, 4, 4))
         IN <<n \div 65536, (n \div 256) % 256, n % 256>>
            \o AtobBytes(SubSeq(data, 5, Len(data)))

atob(b64) == AtobBytes(Unpadded(b64))

\* s.replaceAll(from, to) for one-character from
RECURSIVE replaceAll(_, _, _)
replaceAll(s, from, to) ==
    IF s = "" THEN ""
    ELSE (IF Head(s) = from THEN to ELSE Head(s)) \o replaceAll(Tail(s), from, to)

\* a JSON text built without escaping
Escaped_Raw(s) == s

\* JSON.stringify of a string: quotes and backslashes escaped
RECURSIVE Escaped(_)
Escaped(s) ==
    IF s = "" THEN ""
    ELSE (IF Head(s) \in {"\"", "\\"} THEN "\\" \o Head(s) ELSE Head(s)) \o Escaped(Tail(s))

\* JSON.stringify(state) of copyShareLink's { mode, explain, prompt }
StringifyState(state) ==
    "{" \o Quote("mode") \o ":" \o Quote(Escaped(state.mode))
        \o "," \o Quote("explain") \o ":" \o Quote(Escaped(state.explain))
        \o "," \o Quote("prompt") \o ":" \o Quote(Escaped(state.prompt)) \o "}"

encodeState(state) ==
    LET json == StringifyState(state)
        b64 == btoa(Utf8Bytes(json))
    IN replaceAll(replaceAll(replaceAll(b64, "+", "-"), "/", "_"), "=", "")

\* what JSON.parse returns to decodeState: null, or an object with some of
\* the string properties mode, explain, prompt; DecodedNull is also what
\* decodeState returns from its catch
DecodedNull == [t |-> "null", mode |-> Absent, explain |-> Absent, prompt |-> Absent]
EmptyObject == [t |-> "object", mode |-> Absent, explain |-> Absent, prompt |-> Absent]
Thrown == [t |-> "thrown", mode |-> Absent, explain |-> Absent, prompt |-> Absent]

\* a JSON string literal read from behind its opening quote
RECURSIVE ReadString(_, _)
ReadString(s, acc) ==
    IF s = "" THEN [ok |-> FALSE, value |-> "", rest |-> ""]
    ELSE IF Head(s) = "\"" THEN [ok |-> TRUE, value |-> acc, rest |-> Tail(s)]
    ELSE IF Head(s) = "\\"
    THEN IF Len(s) >= 2 /\ SubSeq(s, 2, 2) \in {"\"", "\\"}
         THEN ReadString(SubSeq(s, 3, Len(s)), acc \o SubSeq(s, 2, 2))
         ELSE [ok |-> FALSE, value |-> "", rest |-> ""]
    ELSE ReadString(Tail(s), acc \o Head(s))

\* obj with the property key set (the last of two equal keys wins; a key
\* the form does not read is dropped)
WithProp(obj, key, value) ==
    IF key \in {"mode", "explain", "prompt"} THEN [obj EXCEPT ![key] = value] ELSE obj

\* the members of a JSON object of string properties, read from behind "{"
RECURSIVE ReadMembers(_, _)
ReadMembers(s, obj) ==
    IF s = "" \/ Head(s) # "\"" THEN Thrown
    ELSE LET key == ReadString(Tail(s), "")
         IN IF ~key.ok \/ Len(key.rest) < 2 \/ SubSeq(key.rest, 1, 2) # ":\"" THEN Thrown
            ELSE LET val == ReadString(SubSeq(key.rest, 3, Len(key.rest)), "")
                     next == WithProp(obj, key.value, val.value)
                 IN IF ~val.ok THEN Thrown
                    ELSE IF val.rest = "}" THEN next
                    ELSE IF val.rest # "" /\ Head(val.rest) = ","
                    THEN ReadMembers(Tail(val.rest), next)
                    ELSE Thrown

\* JSON.parse of the text decodeState decoded (Thrown: a SyntaxError)
ParseState(json) ==
    IF json = "null" THEN DecodedNull
    ELSE IF json = "{}" THEN EmptyObject
    ELSE IF json # "" /\ Head(json) = "{" THEN ReadMembers(Tail(json), EmptyObject)
    ELSE Thrown

\* "===".slice((n + 3) % 4)
Padding(n) == SubSeq("===", ((n + 3) % 4) + 1, 3)

decodeState(b64url) ==
    LET b64 == replaceAll(replaceAll(b64url, "-", "+"), "_", "/") \o Padding(Len(b64url))
    IN IF ~AtobOk(b64) THEN DecodedNull
       ELSE LET bytes == atob(b64)
            IN IF ~IsText(bytes) THEN DecodedNull
               ELSE LET parsed == ParseState(FromUtf8(bytes))
                    IN IF parsed.t = "thrown" THEN DecodedNull ELSE parsed

\* the state copyShareLink shares, and the parameter s of its link
SharedState(m, ex, p) == [mode |-> m, explain |-> ex, prompt |-> trim(p)]
ShareParam(m, ex, p) == encodeState(SharedState(m, ex, p))

\* a load effect that does not look at what it decoded
Prefill_Unguarded(s) ==
    LET decoded == decodeState(s)
    IN [mode |-> decoded.mode, explain |-> decoded.explain, prompt |-> decoded.prompt]

\* mode, explain and prompt after useState and the first half of the load
\* effect (lines 147-156), on a page whose parameter s is the given one
Prefill(s) ==
    IF ~TruthyStr(s) THEN [mode |-> "career", explain |-> "simple", prompt |-> ""]
    ELSE LET decoded == decodeState(s)
         IN IF decoded.t = "object" /\ decoded.prompt # Absent /\ TruthyStr(decoded.prompt)
            THEN [mode |-> decoded.mode, explain |-> decoded.explain,
                  prompt |-> decoded.prompt]
            ELSE [mode |-> "career", explain |-> "simple", prompt |-> ""]

\* a page of the history form is loaded with the parameter s: the cells take
\* their initial values, the load effect prefills the form and reads the
\* stored list, and what the old page awaited is gone
PageLoad(s, event) ==
    /\ variant = "history"
    /\ search' = s
    /\ mode' = Prefill(s).mode
    /\ explain' = Prefill(s).explain
    /\ prompt' = Prefill(s).prompt
    /\ loading' = FALSE
    /\ error' = ""
    /\ output' = OutNull
    /\ showReasoning' = FALSE
    /\ history' = LoadedHistory(storage)
    /\ inflight' = <<>>
    /\ timers' = 0
    /\ clipboardPending' = 0
    /\ escaped' = LoadThrows(storage)
    /\ last' = event
    /\ UNCHANGED <<variant, criteriaText, decision, optionA, optionB, rawResponse, result, storage,
                   hasUUID, nextId>>

\* the page is loaded again, at the same address
Reload == PageLoad(search, Did("load"))

\* the link is opened: a fresh page with the parameter s; from is the state
\* of the form the link was made from
Opened(s, from) ==
    [op |-> "openLink", status |-> 0, text |-> s, message |-> "", missing |-> FALSE,
     from |-> from]
OpenLink(s, from) == PageLoad(s, Opened(s, from))

(***************************************************************************)
(* The specification                                                       *)
(***************************************************************************)
\* the cells after construction and the load effect, for a page of the given
\* variant, with or without crypto.randomUUID, and with the given content of
\* localStorage[LS_KEY]
StartWith(v, uuid, stored) ==
    /\ variant = v
    /\ hasUUID = uuid
    /\ decision = ""
    /\ optionA = ""
    /\ optionB = ""
    /\ criteriaText = ""
    /\ prompt = ""
    /\ mode = "career"
    /\ explain = "simple"
    /\ loading = FALSE
    /\ error = ""
    /\ rawResponse = ""
    /\ result = OutNull
    /\ output = OutNull
    /\ showReasoning = FALSE
    /\ storage = stored
    /\ history = LoadedHistory(storage)
    /\ inflight = <<>>
    /\ timers = 0
    /\ clipboardPending = 0
    /\ search = ""
    /\ nextId = 1
    /\ escaped = LoadThrows(stored)
    /\ last = Did("load")

\* a first visit: nothing is stored
Start(v, uuid) == StartWith(v, uuid, NoStorage)

Init == \E v \in Variants : Start(v, TRUE)

Next ==
    \/ \E v \in FieldValues : SetDecision(v)
    \/ \E v \in FieldValues : SetOptionA(v)
    \/ \E v \in FieldValues : SetOptionB(v)
    \/ Submit0
    \/ \E i \in 1..Len(inflight), st \in Statuses, text \in BodyTexts : Resolve0(i, st, text)
    \/ \E i \in 1..Len(inflight), m \in RejectMessages : Reject0(i, m)
    \/ \E v \in PromptValues : SetPrompt2(v)
    \/ Submit2
    \/ \E i \in 1..Len(inflight), st \in Statuses, text \in BodyTexts : Resolve2(i, st, text)
    \/ \E i \in 1..Len(inflight), m \in RejectMessages : Reject2(i, m)
    \/ \E m \in Modes : SetMode(m)
    \/ \E ex \in Explains : SetExplain(ex)
    \/ \E v \in PromptValues : SetPrompt1(v)
    \/ ToggleReasoning
    \/ Analyze
    \/ \E i \in 1..Len(inflight), st \in Statuses, text \in BodyTexts, ts \in OneTime :
           Resolve1(i, st, text, ts)
    \/ \E i \in 1..Len(inflight), m \in RejectMessages : Reject1(i, m)
    \/ \E k \in 1..Len(history) : LoadHistoryItem(k)
    \/ ClearHistory
    \/ CopyShareLink
    \/ ClipboardResolve
    \/ ClipboardReject
    \/ TimerFire
    \/ Reload

Spec == Init /\ [][Next]_vars

(***************************************************************************)
(* SpecCap: the history form alone, on a page without crypto.randomUUID,   *)
(* with one prompt and one well-formed answer, so that the list grows to   *)
(* its cap.                                                                *)
(***************************************************************************)
CapText == Stringify(MkBody("object", Absent, Absent, OutFullA))

InitCap == Start("history", FALSE)

NextCap ==
    \/ SetPrompt1(" p ")
    \/ Analyze
    \/ \E i \in 1..Len(inflight), ts \in Times : Resolve1(i, 200, CapText, ts)
    \/ \E k \in 1..Len(history) : LoadHistoryItem(k)
    \/ ClearHistory
    \/ Reload

SpecCap == InitCap /\ [][NextCap]_vars

(***************************************************************************)
(* SpecReturn: the history form on a later visit, with one entry stored by *)
(* an earlier one, so that an entry can be loaded while the only request   *)
(* of the visit is pending.                                                *)
(***************************************************************************)
EarlierItem == HistoryItem("uuid-0", 0, Payload1("q", "money", "normal"), OutFullB)

NextReturn ==
    \/ \E v \in PromptValues : SetPrompt1(v)
    \/ Analyze
    \/ \E i \in 1..Len(inflight), st \in Statuses, text \in BodyTexts, ts \in OneTime :
           Resolve1(i, st, text, ts)
    \/ \E i \in 1..Len(inflight), m \in RejectMessages : Reject1(i, m)
    \/ \E k \in 1..Len(history) : LoadHistoryItem(k)
    \/ ToggleReasoning

SpecReturn ==
    StartWith("history", TRUE, StoredList(<<EarlierItem>>)) /\ [][NextReturn]_vars

(***************************************************************************)
(* SpecLoad: pages of the history form loaded over any content of the      *)
(* storage key and with any share parameter.  A page whose load effect     *)
(* threw is unmounted: its form takes no input.                            *)
(***************************************************************************)
\* what localStorage[LS_KEY] may hold when a page is loaded: nothing, the
\* empty text, a text that is not JSON, JSON that is not a list, or a list
StoredValues ==
    {NoStorage, [kind |-> "empty", items |-> <<>>], [kind |-> "text", items |-> <<>>],
     StoredList(<<>>), StoredList(<<EarlierItem>>)}
        \cup {[kind |-> k, items |-> <<>>] : k \in NotAList}

\* values of the parameter s: none, not base64, a length atob rejects, the
\* encodings of x, of null, of {}, of {"prompt":""} and of {"mode":"money"},
\* the link of a form with a blank prompt, and the link of a filled form
ShareParams ==
    {"", "!!!", "A", "eA", "bnVsbA", "e30", "eyJwcm9tcHQiOiIifQ", "eyJtb2RlIjoibW9uZXkifQ",
     ShareParam("money", "normal", "  "), ShareParam("money", "normal", " p ")}

NextLoad ==
    \/ \E s \in ShareParams : OpenLink(s, DecodedNull)
    \/ Reload
    \/ ~escaped /\ \E m \in Modes : SetMode(m)
    \/ ~escaped /\ \E ex \in Explains : SetExplain(ex)
    \/ ~escaped /\ SetPrompt1(" p ")

SpecLoad ==
    (\E stored \in StoredValues : StartWith("history", TRUE, stored)) /\ [][NextLoad]_vars

(***************************************************************************)
(* SpecLive: the submissions of the three forms, with every issued request *)
(* eventually answered: the fetch of a pending request resolves or rejects. *)
(***************************************************************************)
\* the fetch of some pending request settles
Respond ==
    \E i \in 1..Len(inflight) :
        \/ \E st \in Statuses, text \in BodyTexts :
               Resolve0(i, st, text) \/ Resolve2(i, st, text)
        \/ \E st \in Statuses, text \in BodyTexts, ts \in OneTime : Resolve1(i, st, text, ts)
        \/ \E m \in RejectMessages : Reject0(i, m) \/ Reject1(i, m) \/ Reject2(i, m)

\* the steps of Spec that read or write loading, the pending requests or the
\* cells a submission sets (the share link and the reasoning panel do neither)
NextLive ==
    \/ \E v \in FieldValues : SetDecision(v)
    \/ \E v \in FieldValues : SetOptionA(v)
    \/ \E v \in FieldValues : SetOptionB(v)
    \/ Submit0
    \/ \E v \in PromptValues : SetPrompt2(v)
    \/ Submit2
    \/ \E m \in Modes : SetMode(m)
    \/ \E ex \in Explains : SetExplain(ex)
    \/ \E v \in PromptValues : SetPrompt1(v)
    \/ Analyze
    \/ Respond
    \/ \E k \in 1..Len(history) : LoadHistoryItem(k)
    \/ ClearHistory
    \/ Reload

SpecLive == Init /\ [][NextLive]_vars /\ WF_vars(Respond)

(***************************************************************************)
(* SpecShare: the history form and its share link.  The form is edited,    *)
(* and the link copyShareLink makes from it is opened in a fresh page.     *)
(***************************************************************************)
\* what the user types into the prompt: texts whose JSON has every length
\* modulo 3, with a quote, and with bytes that base64 writes as + and /
SharePrompts == {"", "  ", " p ", "q\"r", "~~~", "???>", "ab "}

NextShare ==
    \/ \E m \in Modes : SetMode(m)
    \/ \E ex \in Explains : SetExplain(ex)
    \/ \E v \in SharePrompts : SetPrompt1(v)
    \/ OpenLink(ShareParam(mode, explain, prompt), SharedState(mode, explain, prompt))
    \/ Reload

SpecShare == Start("history", TRUE) /\ [][NextShare]_vars

(***************************************************************************)
(* SpecCriteria: the structured form with its criteria field.              *)
(***************************************************************************)
\* what the user types into the criteria field: nothing, blank lines, bare
\* labels, weights behind ':' and '-', with and without blanks, a label that
\* holds a separator, a weight with a leading zero, four digits, no label,
\* no weight
CriteriaTexts ==
    {"", "  ", "\n \n", "Risk", "Cost: 30", "Cost - 30\n\nRisk", " Speed:7 \nFun\n",
     "a-b: 030", "Cost: 1000", ":5", "Cost:-5", "x:", "2024-12\nCost : 5 \n-"}

NextCriteria ==
    \/ \E v \in FieldValues : SetDecision(v)
    \/ \E v \in FieldValues : SetOptionA(v)
    \/ \E v \in FieldValues : SetOptionB(v)
    \/ \E v \in CriteriaTexts : SetCriteriaText(v)
    \/ Submit0
    \/ \E i \in 1..Len(inflight) : Resolve0(i, 200, CapText)
    \/ \E i \in 1..Len(inflight), m \in RejectMessages : Reject0(i, m)

SpecCriteria == Start("structured", TRUE) /\ [][NextCriteria]_vars

(***************************************************************************)
(* Properties                                                              *)
(***************************************************************************)
\* the cell the result is rendered from
Shown == IF variant = "structured" THEN result ELSE output

\* the step handles the response of a pending request
ResponseStep == Len(inflight') = Len(inflight) - 1 /\ last'.op = "response"

\* the last step handled a response, and this is its body as a document
LastIsResponse == last.op = "response"
LastBody == JsonParse(last.text)

Contains(s, sub) ==
    \E i \in 1..(Len(s) - Len(sub) + 1) : SubSeq(s, i, i + Len(sub) - 1) = sub

IsSortedDesc(items) == \A i \in 1..(Len(items) - 1) : items[i].ts >= items[i + 1].ts

\* C1: in every variant, a submit clicked while a required field is blank
\* after trimming issues no request, sets a non-empty error and leaves
\* loading false.
C1_InvalidSubmitSendsNothing ==
    (last.op = "submit" /\ last.missing)
        => (inflight = <<>> /\ error # "" /\ ~loading)

\* C1 witness: the structured form was submitted with only option B blank
C1_Witness ==
    /\ variant = "structured"
    /\ last.op = "submit" /\ last.missing
    /\ ~Blank(decision) /\ ~Blank(optionA) /\ Blank(optionB)
    /\ error = ValidationError0

\* C2: after a response that is not ok and whose JSON body carries a
\* non-empty `error` string E, the error shown equals E, in every variant.
C2_ServerErrorVerbatim ==
    (LastIsResponse /\ ~IsOk(last.status) /\ IsJson(last.text)
         /\ OrElse(ErrorOf(LastBody), "") # "")
        => error = ErrorOf(LastBody)

\* C3: after a rejected fetch the error shown carries a CORS / network hint
\* and is not the raw message of the rejection, in every variant.
C3_NetworkFailureHint ==
    last.op = "rejected"
        => /\ Contains(error, "CORS") \/ Contains(error, "network")
              \/ Contains(error, "Network")
           /\ error # last.message

\* C4: after an ok response whose JSON body has no `output`, or an `output`
\* without recommendation or scores, no result is stored and a non-empty
\* error is shown; and whatever result is stored has both.
C4_OutputShapeChecked ==
    /\ (LastIsResponse /\ IsOk(last.status) /\ IsJson(last.text)
            /\ ~ShapeOk(OutputOf0(LastBody)))
           => (~Truthy(Shown) /\ error # "")
    /\ Truthy(Shown) => ShapeOk(Shown)

\* C5: after an ok response whose body is {output: X} with X well formed,
\* the stored result is X, the error is empty and loading is false.
C5_SuccessRoundTrip ==
    (LastIsResponse /\ IsOk(last.status) /\ IsJson(last.text)
         /\ OutputOf0(LastBody) \in WellFormedOutputs)
        => (Shown = OutputOf0(LastBody) /\ error = "" /\ ~loading)

\* C6: the step that handles an ok response whose body is not JSON sets a
\* non-empty error, stores no result (the result cells and the history are
\* left as they were, and outside the history form the result is empty),
\* ends with loading false and lets no exception escape.
C6_MalformedBodySurfaced ==
    [][(ResponseStep /\ IsOk(last'.status) /\ ~IsJson(last'.text))
           => /\ error' # ""
              /\ result' = result /\ output' = output
              /\ history' = history /\ storage' = storage
              /\ variant # "history" => ~Truthy(Shown')
              /\ ~loading' /\ ~escaped']_vars

\* C6 witness: a 200 response with the body "not json" was handled
C6_Witness ==
    /\ LastIsResponse /\ last.status = 200 /\ last.text = "not json"
    /\ error = SyntaxErrorMessage("not json")
    /\ ~Truthy(Shown) /\ ~loading

\* C7: the list persisted in local storage never holds more than 25 entries
\* and is ordered by timestamp, most recent first.
C7_HistoryCappedAndSorted ==
    storage.kind = "list"
        => (Len(storage.items) <= HistoryCap /\ IsSortedDesc(storage.items))

\* C7 witness: a successful submission left the stored list full, with
\* entries of different timestamps
C7_Witness ==
    /\ LastIsResponse
    /\ storage.kind = "list" /\ Len(storage.items) = HistoryCap
    /\ storage.items[1].ts > storage.items[HistoryCap].ts

\* C8: at most one request of the form is in flight; loading is true exactly
\* while it is, and the submit control is disabled while loading is true.
C8_OneRequestInFlight ==
    /\ Len(inflight) <= 1
    /\ loading <=> inflight # <<>>
    /\ loading => ~SubmitEnabled

\* C8 witness: a validated submission is waiting for its response
C8_Witness == loading /\ Len(inflight) = 1 /\ last.op = "submit" /\ ~last.missing

\* C9 as stated: a new submission can be started from the form while an
\* earlier one is still pending (so that the earlier response can arrive
\* after the newer one and overwrite its result).
C9_SubmitWhilePending == inflight # <<>> => SubmitEnabled

\* C9 as amended: a request is issued only while none is pending, and a
\* response is handled only when its request is the single pending one, so
\* no response of an earlier submission arrives after a newer one's.
C9_NoStaleResponse ==
    [][/\ Len(inflight') > Len(inflight) => inflight = <<>>
       /\ (Len(inflight') < Len(inflight) /\ last'.op \in {"response", "rejected"})
              => (Len(inflight) = 1 /\ inflight' = <<>>)]_vars

\* C9 witness: a response was handled and stored while nothing else was pending
C9_Witness == LastIsResponse /\ inflight = <<>> /\ Truthy(Shown) /\ ~loading

\* C10: after a response that is not ok and whose JSON body has neither
\* `error` nor `details`, the error shown is exactly HTTP <status>, in every
\* variant.
C10_HttpStatusFallback ==
    (LastIsResponse /\ ~IsOk(last.status) /\ IsJson(last.text)
         /\ LastBody.t = "object" /\ LastBody.error = Absent /\ LastBody.details = Absent)
        => error = "HTTP " \o ToString(last.status)

\* the step is a click on submit that passed validation
ValidSubmitStep == last'.op = "submit" /\ ~last'.missing /\ last' # last

\* the last step ended a submission: validation failed, or its response or
\* the rejection of its fetch was handled
SubmissionEnded ==
    \/ last.op = "submit" /\ last.missing
    \/ last.op \in {"response", "rejected"}

\* C11: when every issued request is eventually answered, every submission
\* eventually ends with loading false, whatever its outcome; when it has ended
\* the submit control is enabled, and a click on it with valid input issues a
\* new request.
C11_FormStaysUsable ==
    /\ loading ~> ~loading
    /\ [](SubmissionEnded => (~loading /\ SubmitEnabled /\ inflight = <<>>))
    /\ [][ValidSubmitStep => (Len(inflight') = Len(inflight) + 1 /\ loading')]_vars

\* C11 witness: the fetch of a submission of the structured form was rejected,
\* the form holds valid input and a click on submit issues a request
C11_Witness ==
    /\ variant = "structured"
    /\ last.op = "rejected" /\ error # "" /\ ~loading
    /\ ENABLED (Submit0 /\ Len(inflight') = 1)

\* the step handles the response, or the rejection, of a submission
SettledStep == last'.op \in {"response", "rejected"} /\ last' # last

\* C12: a request is issued only by a click on submit that passed validation,
\* and that click issues exactly one; a click that fails validation issues
\* none; the step that handles a response or a rejection, whatever the
\* outcome, removes its request and issues no other; no other step (a timer,
\* the clipboard, a field edit, a history click) touches the requests, except
\* that a page load drops them.
C12_NoRetry ==
    [][/\ ValidSubmitStep => inflight' = Append(inflight, inflight'[Len(inflight')])
       /\ (last'.op = "submit" /\ last'.missing) => inflight' = inflight
       /\ SettledStep => Len(inflight') = Len(inflight) - 1
       /\ inflight' # inflight
             => \/ ValidSubmitStep
                \/ SettledStep
                \/ last'.op = "load" /\ inflight' = <<>>]_vars

\* C12 witness: the fetch of a submission was rejected and nothing is pending
C12_Witness == last.op = "rejected" /\ inflight = <<>> /\ ~loading /\ error # ""

\* the message the form shows when a required field is blank
ValidationErrorOf(v) ==
    IF v = "structured" THEN ValidationError0
    ELSE IF v = "history" THEN ValidationError1
    ELSE ValidationError2

\* C13: in every variant, once submit has been clicked the result cell is
\* null, the raw response is empty and the error is empty or, when
\* validation failed, the validation message: nothing of an earlier
\* submission is left; the step that handles a rejected fetch stores no
\* result, so outside the history form (where a history click may show an
\* entry meanwhile) no result is stored when a submission has failed on the
\* network.
C13_SubmitResets ==
    /\ [](last.op = "submit"
             => /\ Shown = OutNull
                /\ rawResponse = ""
                /\ ~showReasoning
                /\ error = (IF last.missing THEN ValidationErrorOf(variant) ELSE ""))
    /\ []((last.op = "rejected" /\ variant # "history") => Shown = OutNull)
    /\ [][(SettledStep /\ last'.op = "rejected")
              => (result' = result /\ output' = output /\ rawResponse' = rawResponse)]_vars

\* C13 witness: in the history form a submission had succeeded, and a later
\* click on submit with a blank prompt left no result and only the
\* validation message
C13_Witness ==
    /\ variant = "history" /\ Len(history) = 1
    /\ last.op = "submit" /\ last.missing
    /\ output = OutNull /\ error = ValidationError1

\* the step opens a share link in a fresh page
OpenStep == last'.op = "openLink" /\ last' # last

\* what decodeState returns for the state s
DecodedAs(s) == [t |-> "object", mode |-> s.mode, explain |-> s.explain, prompt |-> s.prompt]

\* C14 as stated: for every state of the form, the page opened from the link
\* copyShareLink makes holds the same mode, the same explain setting and the
\* trimmed prompt, and decodeState(encodeState(s)) = s.
C14_ShareLinkRoundTrip ==
    [][OpenStep
          => /\ decodeState(encodeState(last'.from)) = DecodedAs(last'.from)
             /\ mode' = mode /\ explain' = explain /\ prompt' = trim(prompt)]_vars

\* C14 as amended: decodeState(encodeState(s)) = s for every state s; the
\* page opened from the link holds the mode, the explain setting and the
\* trimmed prompt of s when the trimmed prompt is not empty, and the
\* defaults (career, simple, empty prompt) when it is.
C14_ShareLinkPrefills ==
    [][OpenStep
          => /\ last'.from = SharedState(mode, explain, prompt)
             /\ search' = encodeState(last'.from)
             /\ decodeState(search') = DecodedAs(last'.from)
             /\ IF trim(prompt) # ""
                THEN mode' = mode /\ explain' = explain /\ prompt' = trim(prompt)
                ELSE mode' = "career" /\ explain' = "simple" /\ prompt' = ""]_vars

\* C14 witness: a link made in money mode with the detailed explanation and
\* a prompt holding a quote was opened, and the fresh form holds all three
C14_Witness ==
    /\ last.op = "openLink" /\ search = last.text
    /\ last.from = [mode |-> "money", explain |-> "normal", prompt |-> "q\"r"]
    /\ mode = "money" /\ explain = "normal" /\ prompt = "q\"r"

\* the step handled a 2xx response whose body is a JSON object with an
\* object as `output`: the submission succeeded
SucceededStep ==
    /\ SettledStep /\ last'.op = "response"
    /\ IsOk(last'.status) /\ IsJson(last'.text)
    /\ Truthy(OutputOf0(JsonParse(last'.text)))

\* the step ended a submission without success: validation failed, the
\* status was not 2xx, the body did not parse or held no output, or the
\* fetch was rejected
FailedStep ==
    \/ SettledStep /\ ~SucceededStep
    \/ last'.op = "submit" /\ last'.missing

\* C15: in the history form a step that ends a submission without success
\* leaves the history cell and the stored list as they were, and a step that
\* ends one with success adds exactly one entry to the history (cut to the
\* cap), holding the trimmed prompt, mode and explain of the request and the
\* output of the response, and stores that list.
C15_HistoryEntryIffSuccess ==
    [][variant = "history"
          => /\ FailedStep => (history' = history /\ storage' = storage)
             /\ SucceededStep
                   => \E ts \in Times :
                         LET req == inflight[1]
                             out == OutputOf0(JsonParse(last'.text))
                             item == HistoryItem(ItemId(hasUUID, nextId, ts), ts,
                                                 req.payload, out)
                         IN /\ req.payload.prompt = trim(req.payload.prompt)
                            /\ history' = Trimmed(NextHistory(item, history))
                            /\ storage' = StoredList(history')]_vars

\* the positions before the lines of a text: 0 and those of its line breaks
LineStarts(text) == {0} \cup {i \in 1..Len(text) : SubSeq(text, i, i) = "\n"}

\* the line that starts behind position b, trimmed
LineAt(text, b) ==
    LET later == {i \in LineStarts(text) \cup {Len(text) + 1} : i > b}
        end == CHOOSE i \in later : \A j \in later : i <= j
    IN trim(SubSeq(text, b + 1, end - 1))

\* the position of the separator of a line of the form label, separator,
\* integer of one to three digits (none or one position)
SeparatorsOf(line) ==
    {i \in 2..(Len(line) - 1) :
        /\ SubSeq(line, i, i) \in {":", "-"}
        /\ LET digits == trim(SubSeq(line, i + 1, Len(line)))
           IN Len(digits) \in 1..3 /\ IsDigits(digits)}

\* what the claim says a trimmed line yields
ExpectedCriterion(line) ==
    IF SeparatorsOf(line) = {} THEN [criterion |-> line, weight |-> AbsentNum]
    ELSE LET i == CHOOSE i \in SeparatorsOf(line) : TRUE
         IN [criterion |-> trim(SubSeq(line, 1, i - 1)),
             weight |-> Number(trim(SubSeq(line, i + 1, Len(line))))]

\* what the claim says a text yields
CriteriaAsClaimed(text, parsed) ==
    LET kept == {b \in LineStarts(text) : LineAt(text, b) # ""}
    IN IF kept = {} THEN parsed = NoCriteria
       ELSE /\ parsed.t = "array"
            /\ Len(parsed.items) = Cardinality(kept)
            /\ \A b \in kept :
                  parsed.items[Cardinality({c \in kept : c <= b})]
                      = ExpectedCriterion(LineAt(text, b))

\* C16: for every criteria text, parsedCriteria is undefined when no line is
\* left after dropping the lines that are blank after trimming, and otherwise
\* holds one criterion per remaining line, in input order: the trimmed label
\* and the integer for a line of the form label, ':' or '-', integer of one
\* to three digits, the whole trimmed line without weight for any other; and
\* a validated submit sends that value as `criteria`.
C16_CriteriaParsing ==
    /\ [](/\ Cardinality(SeparatorsOf(trim(criteriaText))) <= 1
          /\ CriteriaAsClaimed(criteriaText, parsedCriteria(criteriaText)))
    /\ [][ValidSubmitStep
             => CriteriaAsClaimed(criteriaText, inflight'[1].payload.criteria)]_vars

\* C16 witness: a request was sent with two criteria, the first weighted, the
\* blank line between them dropped
C16_Witness ==
    /\ criteriaText = "Cost - 30\n\nRisk"
    /\ last.op = "submit" /\ ~last.missing /\ Len(inflight) = 1
    /\ inflight[1].payload.criteria
           = Criteria(<<[criterion |-> "Cost", weight |-> 30],
                        [criterion |-> "Risk", weight |-> AbsentNum]>>)

\* C17 as stated: in the structured form, once a response body has been read
\* rawResponse equals it and is not empty (it is empty only before the first
\* response and between a submit's reset and its response).
C17_RawResponseNeverEmptyAfter ==
    (variant = "structured" /\ LastIsResponse)
        => (rawResponse = last.text /\ rawResponse # "")

\* C17 as amended: in the structured form rawResponse equals the body text of
\* the response read since the last submit's reset, whatever the status and
\* whether or not it parses, and is empty when none has been read since: so
\* it is empty only then, or when the body read was itself empty.
C17_RawResponseIsBody ==
    variant = "structured"
        => rawResponse = (IF LastIsResponse THEN last.text ELSE "")

\* C17 witness: a 500 response whose body is not JSON was handled, and the
\* raw text is there beside the error
C17_Witness ==
    /\ variant = "structured"
    /\ LastIsResponse /\ last.status = 500 /\ last.text = "not json"
    /\ rawResponse = "not json" /\ error # "" /\ ~Truthy(result)

\* a step of loadHistoryItem: the first one after another handler, or a
\* repeated one
LoadItemStep ==
    /\ last'.op = "loadHistoryItem"
    /\ last.op # "loadHistoryItem" \/ \E k \in 1..Len(history) : LoadHistoryItem(k)

\* C18: loadHistoryItem(h) sets mode, explain, prompt and output to the
\* values stored in h (output null when h has none), clears the error and
\* collapses the reasoning panel, and changes nothing else: no request is
\* issued or dropped, loading, the in-memory history and the persisted list
\* stay as they are.
C18_LoadHistoryItemFrame ==
    [][LoadItemStep =>
          /\ \E k \in 1..Len(history) :
                 /\ mode' = history[k].mode
                 /\ explain' = history[k].explain
                 /\ prompt' = history[k].prompt
                 /\ output' = (IF Truthy(history[k].output)
                               THEN history[k].output ELSE OutNull)
          /\ error' = ""
          /\ showReasoning' = FALSE
          /\ UNCHANGED <<loading, inflight, history, storage, hasUUID, nextId>>
          /\ UNCHANGED <<variant, decision, optionA, optionB, criteriaText,
                         rawResponse, result, escaped, shareVars>>]_vars

\* C18 witness: an entry stored in money mode was loaded back
C18_Witness ==
    /\ variant = "history"
    /\ last.op = "loadHistoryItem"
    /\ Len(history) = 1 /\ storage # NoStorage
    /\ history[1].mode = "money" /\ mode = "money"
    /\ explain = history[1].explain /\ explain # "simple"
    /\ prompt = history[1].prompt
    /\ output = history[1].output /\ Truthy(output)
    /\ error = "" /\ ~showReasoning /\ ~loading

\* C19: in the structured form, when no submission is in progress and one has
\* completed (validation failed, or its response or the rejection of its
\* fetch was handled), exactly one of the two holds: the result is not null,
\* or the error is not empty.
C19_ResultXorError ==
    (variant = "structured" /\ ~loading /\ SubmissionEnded)
        => ((result # OutNull) # (error # ""))

\* C19 witness: a response was handled and left a result and no error
C19_Witness ==
    /\ variant = "structured" /\ ~loading /\ inflight = <<>>
    /\ LastIsResponse /\ last.status = 200
    /\ Truthy(result) /\ error = ""

\* C20: once clearHistory has emptied the history cell and the stored list,
\* no step brings a cleared entry back: the response of a submission that was
\* pending at the clear leaves at most the one entry it creates, in the cell
\* and in storage, and any other step that follows the clear leaves both
\* empty.
C20_ClearedStaysCleared ==
    [][(variant = "history" /\ last.op = "clearHistory")
          => IF SucceededStep
             THEN Len(history') = 1 /\ storage' = StoredList(history')
             ELSE history' = <<>> /\ storage' = NoStorage]_vars

\* C21: a successful submission removes no stored entry unless the stored
\* list would exceed the cap of 25: when storage holds k entries before the
\* response is handled, it holds at least the new entry and min(k, 24)
\* earlier ones after it.
C21_SuccessKeepsStored ==
    [][(variant = "history" /\ SucceededStep)
          => LET k == Len(safeParse(storage))
             IN Len(safeParse(storage')) >= 1 + (IF k < HistoryCap - 1 THEN k
                                                  ELSE HistoryCap - 1)]_vars

\* the error cell shows a message that analyze set: the last handler step
\* was a step of analyze and left an error
ShowsAnalyzeError ==
    /\ variant = "history"
    /\ last.op \in {"submit", "response", "rejected"}
    /\ error # ""

\* C22: an error set by analyze stays in the error cell until analyze or
\* loadHistoryItem is invoked next (or the page is loaded anew): no timer and
\* no other callback clears or replaces it.
C22_ErrorStaysDisplayed ==
    [][ShowsAnalyzeError
          => \/ error' = error
             \/ last' # last /\ last'.op \in {"submit", "loadHistoryItem", "load", "openLink"}]_vars

\* C23: after loadHistoryItem(h) the output cell keeps h.output until analyze
\* or loadHistoryItem is invoked next (or the page is loaded anew): no other
\* step changes it, and the response of a submission that was pending when
\* the entry was loaded does not replace it.
C23_LoadedOutputStays ==
    [][(variant = "history" /\ last.op = "loadHistoryItem")
          => \/ output' = output
             \/ last' # last /\ last'.op \in {"submit", "load", "openLink"}
             \/ \E k \in 1..Len(history) : LoadHistoryItem(k)]_vars

\* a page is loaded: again at the same address, or from a link
PageLoadStep == Reload \/ \E s \in ShareParams : OpenLink(s, DecodedNull)

\* the parameter decodes to a state with a non-empty prompt
DecodesToPrompt(s) ==
    LET decoded == decodeState(s)
    IN decoded.t = "object" /\ decoded.prompt # Absent /\ decoded.prompt # ""

\* C24: a page load tolerates any content of the storage key and of the
\* share parameter: over a stored value that is absent, empty, not JSON, or
\* JSON but not a list, no exception leaves the load effect and the history
\* cell is a list (the empty one); with a parameter that does not decode to
\* a state with a non-empty prompt the form has its defaults.
C24_LoadTolerates ==
    [][PageLoadStep
          => /\ storage.kind # "list" => (~escaped' /\ history' = <<>>)
             /\ ~DecodesToPrompt(search')
                   => (mode' = "career" /\ explain' = "simple" /\ prompt' = "")]_vars

====
